---- MODULE Spec2Model ----
(***************************************************************************)
(* Krist node: block submission (legacy GET /?submitblock, POST /submit,   *)
(* websocket submit_block), POST /login, GET /work/day and the v2 address  *)
(* routes, as state machines over the shared chain, work and ledger        *)
(* (Spec); and the webhook routes over the webhook registry                *)
(* (SpecWebhooks).                                                         *)
(*                                                                         *)
(* Strings are sequences of one-character strings.  An absent request      *)
(* parameter and the empty string are both the empty sequence: every use   *)
(* of a parameter in the handlers is behind a JavaScript truthiness test,  *)
(* which treats undefined and "" alike.                                    *)
(*                                                                         *)
(* Lengths are scaled: addresses have AddrLen characters (10 in Krist),    *)
(* digests HashLen hex digits (64), the short hash PrefixLen digits (12),  *)
(* and hex digits are the four characters of HexChars (16).                *)
(***************************************************************************)
EXTENDS Integers, Sequences, FiniteSets, TLC

\* ------------------------------------------------------------ bounds
NumReqs == 2
MaxBlocks == 2
MaxNonceLen == 3
MaxTime == 2
MaxHooks == 2

\* ------------------------------------------------- scaled constants
AddrLen == 3
HashLen == 4
PrefixLen == 2
HexBase == 4
NonceMaxSize == 2
MinWork == 4
MaxWork == 6
BlockReward == 2
WindowLen == 2

\* ------------------------------------------------------- characters
HexChars == {"0", "1", "a", "b"}
V2Chars == HexChars \cup {"k", "z"}
Chars == V2Chars \cup {"!"}

HexVal(c) == CASE c = "0" -> 0 [] c = "1" -> 1 [] c = "a" -> 2 [] c = "b" -> 3

HexDigit(n) == CASE n = 0 -> "0" [] n = 1 -> "1" [] n = 2 -> "a" [] n = 3 -> "b"

CharCode(c) ==
  CASE c \in HexChars -> HexVal(c) [] c = "k" -> 4 [] c = "z" -> 5 [] c = "!" -> 6

\* JavaScript truthiness of a string parameter: undefined and "" are falsy.
Truthy(s) == s # <<>>

Substr(s, n) == SubSeq(s, 1, IF Len(s) < n THEN Len(s) ELSE n)

\* ------------------------------------------------------------ hashes
HashSpace == HexBase * HexBase * HexBase * HexBase

RECURSIVE Mix(_)
Mix(s) ==
  IF s = <<>> THEN 7
  ELSE (Mix(SubSeq(s, 1, Len(s) - 1)) * 13 + CharCode(s[Len(s)]) * 51 + 1) % HashSpace

RECURSIVE ToHex(_, _)
ToHex(n, len) ==
  IF len = 0 THEN <<>>
  ELSE Append(ToHex(n \div HexBase, len - 1), HexDigit(n % HexBase))

\* utils.sha256: a deterministic digest of HashLen hex digits.
Sha256(s) == ToHex(Mix(s), HashLen)

\* parseInt(s, 16) of a string of hex digits.
RECURSIVE ParseIntHex(_)
ParseIntHex(s) ==
  IF s = <<>> THEN 0
  ELSE ParseIntHex(SubSeq(s, 1, Len(s) - 1)) * HexBase + HexVal(s[Len(s)])

\* -------------------------------------------------------- addresses
IsV1Format(a) == Len(a) = AddrLen /\ \A i \in 1..Len(a) : a[i] \in HexChars

IsV2Format(a) ==
  /\ Len(a) = AddrLen
  /\ a[1] = "k"
  /\ \A i \in 2..Len(a) : a[i] \in V2Chars

IsValidKristAddress(a) == IsV1Format(a) \/ IsV2Format(a)

MakeV1Address(key) == Substr(Sha256(key), AddrLen)

MakeV2Address(key) == <<"k">> \o Substr(Sha256(Sha256(key)), AddrLen - 1)

\* parseInt(s) of a query parameter: the leading run of decimal digits, NaN
\* when there is none.
DecChars == {"0", "1", "2", "3"}

DecVal(c) == CASE c = "0" -> 0 [] c = "1" -> 1 [] c = "2" -> 2 [] c = "3" -> 3

RECURSIVE DigitRun(_)
DigitRun(s) ==
  IF s = <<>> \/ s[1] \notin DecChars THEN <<>>
  ELSE <<s[1]>> \o DigitRun(Tail(s))

RECURSIVE DecValue(_)
DecValue(s) ==
  IF s = <<>> THEN 0
  ELSE DecValue(SubSeq(s, 1, Len(s) - 1)) * 10 + DecVal(s[Len(s)])

ParseInt(s) ==
  IF DigitRun(s) = <<>> THEN [nan |-> TRUE, val |-> 0]
  ELSE [nan |-> FALSE, val |-> DecValue(DigitRun(s))]

\* x || 2 for a number x: NaN and 0 are falsy.
OrTwo(p) == IF p.nan \/ p.val = 0 THEN 2 ELSE p.val

\* ------------------------------------------------------------ inputs
Reqs == 1..NumReqs

\* Private keys a client may hold.
KeyA == <<"a">>
KeyK == <<"k">>
Keys == {KeyA, KeyK}

\* Miner addresses a client may send: absent, a bad character, too short, a
\* v2 address and a v1 address.
SubmitAddresses ==
  {<<>>, <<"k", "!", "z">>, <<"k", "0">>, MakeV2Address(KeyA), MakeV1Address(KeyA)}

RECURSIVE SeqsUpTo(_, _)
SeqsUpTo(S, n) ==
  IF n = 0 THEN {<<>>}
  ELSE LET shorter == SeqsUpTo(S, n - 1)
       IN  shorter \cup {Append(t, c) : t \in shorter, c \in S}

NonceChars == {"a"}
Nonces == SeqsUpTo(NonceChars, MaxNonceLen)

PrivateKeys == {<<>>} \cup Keys
Versions == {<<>>, <<"0">>, <<"1">>, <<"2">>, <<"3">>, <<"z">>, <<"1", "z">>}

\* Every address the ledger can come to hold.
LedgerAddresses ==
  {a \in SubmitAddresses : IsValidKristAddress(a)}
    \cup {MakeV1Address(k) : k \in Keys} \cup {MakeV2Address(k) : k \in Keys}

\* ------------------------------------------------------------- state
VARIABLES chain, work, ledger, now, workSamples, req,
          webhooks, nextId, everRegistered, deleted, hreq

shared == <<chain, work, ledger, now, workSamples>>
\* The webhook registry, the id the store assigns next, the record of what
\* was ever registered and deleted, and the webhook request last handled.
hooks == <<webhooks, nextId, everRegistered, deleted, hreq>>
vars == <<chain, work, ledger, now, workSamples, req,
          webhooks, nextId, everRegistered, deleted, hreq>>

\* ------------------------------------------------------------ ledger
NoAddress == [exists |-> FALSE, balance |-> 0, totalin |-> 0, totalout |-> 0]

\* Ledger.get: the stored address, or not found.
LedgerGet(l, a) == l[a]

\* Ledger.getOrCreate: zero balances when absent, idempotent.
GetOrCreate(l, a) ==
  IF l[a].exists THEN l
  ELSE [l EXCEPT ![a] = [exists |-> TRUE, balance |-> 0, totalin |-> 0, totalout |-> 0]]

\* Mutant of Credit: the balance grows, totalin is forgotten.
CreditBalanceOnly(l, a, amount) == [l EXCEPT ![a].balance = @ + amount]

\* Ledger.credit: balance and totalin grow together.
Credit(l, a, amount) ==
  [l EXCEPT ![a].balance = @ + amount, ![a].totalin = @ + amount]

\* ------------------------------------------------------ work tracker
\* krist.getWork
GetWork == work

\* The retarget after an accepted block: a bounded target.
WorkTargets == MinWork..MaxWork

\* recordSample(now, work): at most one sample per minute, none older than
\* the window.
RecordSample(samples, t, w) ==
  LET added == IF samples # <<>> /\ samples[Len(samples)].t = t
               THEN samples
               ELSE Append(samples, [t |-> t, work |-> w])
  IN  SelectSeq(added, LAMBDA smp : smp.t > t - WindowLen)

\* Mutant of GetWorkOverTime: the stored samples are returned as they are.
GetWorkOverTimeStored(samples, t, unknown) ==
  [i \in 1..Len(samples) |-> samples[i].work]

\* n minutes from minute m on: the sample of the minute, or else the value
\* of the minute before.
RECURSIVE FillMinutes(_, _, _, _)
FillMinutes(samples, m, last, n) ==
  IF n = 0 THEN <<>>
  ELSE LET here == SelectSeq(samples, LAMBDA smp : smp.t = m)
           v == IF here # <<>> THEN here[1].work ELSE last
       IN  <<v>> \o FillMinutes(samples, m + 1, v, n - 1)

\* workOverTime(): one value for each of the last WindowLen minutes, oldest
\* first, a minute without a sample repeating the last known value. What
\* fills the minutes before the first known sample is not stated: unknown.
GetWorkOverTime(samples, t, unknown) ==
  LET start == t - WindowLen + 1
      before == SelectSeq(samples, LAMBDA smp : smp.t < start)
      seed == IF before # <<>> THEN before[Len(before)].work ELSE unknown
  IN  FillMinutes(samples, start, seed, WindowLen)

\* ------------------------------------------------------------- chain
GenesisHash == ToHex(0, HashLen)

Genesis == [height |-> 0, address |-> <<>>, hash |-> GenesisHash, value |-> 0]

\* blocks.getLastBlock: the chain head.
GetLastBlock == chain[Len(chain)]

NoBlock == [height |-> 0 - 1, address |-> <<>>, hash |-> <<>>, value |-> 0]

\* The block blocks.submit appends for (hash, address).
NewBlock(hash, address) ==
  [height |-> GetLastBlock.height + 1, address |-> address, hash |-> hash,
   value |-> BlockReward]

\* The accept sequence (blocks.submit), all of it in one step: append the
\* block, create and credit the solver, retarget and record the sample.
BlocksSubmit(hash, address, newWork) ==
  /\ Len(chain) <= MaxBlocks
  /\ chain' = Append(chain, NewBlock(hash, address))
  /\ ledger' = Credit(GetOrCreate(ledger, address), address, BlockReward)
  /\ work' = newWork
  /\ workSamples' = RecordSample(workSamples, now, newWork)
  /\ now' = now
  /\ UNCHANGED hooks

\* ---------------------------------------------------------- requests
NoResponse == [none |-> TRUE]

\* A request's locals. headWork is not a local of any handler: it notes the
\* work that was in force when lastBlock was read.
Idle ==
  [kind |-> "none", pc |-> "idle", address |-> <<>>, nonce |-> <<>>,
   isGuest |-> FALSE, auth |-> <<>>, privatekey |-> <<>>, v |-> <<>>,
   subAddr |-> <<>>, lastBlock |-> NoBlock, headWork |-> 0, last |-> <<>>,
   difficulty |-> 0,
   hash |-> <<>>, block |-> NoBlock, outcome |-> "none",
   response |-> NoResponse]

Text(s) == [text |-> s]
Literal(s) == [literal |-> s]

ErrorMissingParameter(p) == [error |-> "missing_parameter", parameter |-> p]
ErrorInvalidParameter(p) == [error |-> "invalid_parameter", parameter |-> p]
ErrorSolutionIncorrect == [error |-> "solution_incorrect", parameter |-> ""]
ErrorStorage == [error |-> "server_error", parameter |-> ""]

\* utils.sendErrorToRes: the error as the JSON of an error response.
ErrorToJSON(e) ==
  IF e.parameter = "" THEN [ok |-> FALSE, error |-> e.error]
  ELSE [ok |-> FALSE, error |-> e.error, parameter |-> e.parameter]

\* Requests are numbered in the order they arrive.
Arrives(r) == req[r].pc = "idle" /\ \A q \in Reqs : q < r => req[q].pc # "idle"

\* No webhook request handled yet.
NoHookRequest ==
  [kind |-> "none", privatekey |-> <<>>, owner |-> <<>>, event |-> "",
   addresses |-> <<>>, id |-> 0, outcome |-> "none", response |-> NoResponse]

Init ==
  /\ chain = <<Genesis>>
  /\ work = MinWork
  /\ \E present \in {{}, {MakeV2Address(KeyA), MakeV1Address(KeyK)}} :
       ledger = [a \in LedgerAddresses |->
                   IF a \in present
                   THEN [exists |-> TRUE, balance |-> 1, totalin |-> 3, totalout |-> 2]
                   ELSE NoAddress]
  /\ now = 0
  /\ workSamples = <<>>
  /\ req = [r \in Reqs |-> Idle]
  /\ webhooks = {}
  /\ nextId = 1
  /\ everRegistered = {}
  /\ deleted = {}
  /\ hreq = NoHookRequest

\* A minute passes.
Tick ==
  /\ now < MaxTime
  /\ now' = now + 1
  /\ UNCHANGED <<chain, work, ledger, workSamples, req>>
  /\ UNCHANGED hooks

\* ------------------------------------------- legacy GET /?submitblock
\* !req.query.address || !krist.isValidKristAddress(req.query.address)
LegacyAddressRejected(address) == ~Truthy(address) \/ ~IsValidKristAddress(address)

\* Mutant of LegacyNonceRejected: the absent nonce is not caught.
LegacyNonceRejectedLengthOnly(nonce) == Len(nonce) > NonceMaxSize

\* !req.query.nonce || req.query.nonce.length > config.nonceMaxSize
LegacyNonceRejected(nonce) == ~Truthy(nonce) \/ Len(nonce) > NonceMaxSize

\* utils.sha256(address + last + nonce)
Digest(address, last, nonce) == Sha256(address \o last \o nonce)

\* Mutant of WorkCheck: a digest equal to the work is refused.
WorkCheckStrict(hash, difficulty) == ParseIntHex(Substr(hash, PrefixLen)) < difficulty

\* parseInt(hash.substr(0, 12), 16) <= difficulty
WorkCheck(hash, difficulty) == ParseIntHex(Substr(hash, PrefixLen)) <= difficulty

\* res.send(req.query.address + last + req.query.nonce)
LegacyNoMatchBody(address, last, nonce) == address \o last \o nonce

LegacySolvedText == "Block solved"

\* Mutant of LegacyRejectedText: the catch branch answers like the then branch.
LegacyRejectedTextAsSolved == "Block solved"

LegacyRejectedText == "Solution rejected"

\* The synchronous part of the handler: both validations, then the call of
\* blocks.getLastBlock().
LegacyRequest(r, address, nonce) ==
  /\ Arrives(r)
  /\ LET started == [Idle EXCEPT !.kind = "legacy", !.address = address, !.nonce = nonce]
     IN  req' = [req EXCEPT ![r] =
           IF LegacyAddressRejected(address)
           THEN [started EXCEPT !.pc = "done", !.outcome = "InvalidAddress",
                                !.response = Text("Invalid address")]
           ELSE IF LegacyNonceRejected(nonce)
           THEN [started EXCEPT !.pc = "done", !.outcome = "InvalidNonce",
                                !.response = Text("Nonce is too large")]
           ELSE [started EXCEPT !.pc = "getLastBlock", !.subAddr = address]]
  /\ UNCHANGED shared
  /\ UNCHANGED hooks

\* blocks.getLastBlock() reads the head; its callback runs in a later turn.
GetLastBlockResolve(r) ==
  /\ req[r].pc = "getLastBlock"
  /\ req' = [req EXCEPT ![r].pc = "then", ![r].lastBlock = GetLastBlock,
                         ![r].headWork = work]
  /\ UNCHANGED shared
  /\ UNCHANGED hooks

\* blocks.getLastBlock() fails: the handler has no catch and never answers.
GetLastBlockReject(r) ==
  /\ req[r].pc = "getLastBlock"
  /\ req' = [req EXCEPT ![r].pc = "hung", ![r].outcome = "HeadReadFailed"]
  /\ UNCHANGED shared
  /\ UNCHANGED hooks

\* The then-callback: digest against the head that was read, compared with
\* the work of this turn; a match calls blocks.submit.
LegacyThen(r) ==
  /\ req[r].pc = "then"
  /\ LET last == Substr(req[r].lastBlock.hash, PrefixLen)
         difficulty == GetWork
         hash == Digest(req[r].address, last, req[r].nonce)
         read == [req[r] EXCEPT !.last = last, !.difficulty = difficulty, !.hash = hash]
     IN  req' = [req EXCEPT ![r] =
           IF WorkCheck(hash, difficulty)
           THEN [read EXCEPT !.pc = "submit"]
           ELSE [read EXCEPT !.pc = "done", !.outcome = "NoMatch",
                   !.response = Literal(LegacyNoMatchBody(req[r].address, last, req[r].nonce))]]
  /\ UNCHANGED shared
  /\ UNCHANGED hooks

\* blocks.submit(hash, address, nonce) resolves: 'Block solved'.
LegacySubmitThen(r) ==
  /\ req[r].pc = "submit"
  /\ \E newWork \in WorkTargets :
       BlocksSubmit(req[r].hash, req[r].address, newWork)
  /\ req' = [req EXCEPT ![r].pc = "done", ![r].outcome = "Accepted",
               ![r].block = NewBlock(req[r].hash, req[r].address),
               ![r].response = Text(LegacySolvedText)]

\* blocks.submit rejects: 'Solution rejected', nothing committed.
LegacySubmitCatch(r) ==
  /\ req[r].pc = "submit"
  /\ req' = [req EXCEPT ![r].pc = "done", ![r].outcome = "Rejected",
               ![r].response = Text(LegacyRejectedText)]
  /\ UNCHANGED shared
  /\ UNCHANGED hooks

\* --------------------------- blocksController.submitBlock(address, nonce)
NoError == [error |-> "", parameter |-> ""]

\* Steps 1 and 2: the address, then the nonce; the first failure is the
\* parameter error the promise rejects with.
SubmitBlockValidate(address, nonce) ==
  IF ~Truthy(address) THEN ErrorMissingParameter("address")
  ELSE IF ~IsValidKristAddress(address) THEN ErrorInvalidParameter("address")
  ELSE IF ~Truthy(nonce) THEN ErrorMissingParameter("nonce")
  ELSE IF Len(nonce) > NonceMaxSize THEN ErrorInvalidParameter("nonce")
  ELSE NoError

SubmitOutcome(e) ==
  IF e.parameter = "address" THEN "InvalidAddress"
  ELSE IF e.parameter = "nonce" THEN "InvalidNonce"
  ELSE IF e = ErrorSolutionIncorrect THEN "NoMatch"
  ELSE "Rejected"

\* addressesController.addressToJSON
AddressToJSON(l, a) ==
  [address |-> a, balance |-> l[a].balance, totalin |-> l[a].totalin,
   totalout |-> l[a].totalout]

\* blocksController.blockToJSON
BlockToJSON(b) ==
  [height |-> b.height, address |-> b.address, hash |-> b.hash,
   short_hash |-> Substr(b.hash, PrefixLen), value |-> b.value]

\* The JSON both transports answer a resolved submitBlock with.
SubmitSuccessJSON(w, l, b) ==
  [ok |-> TRUE, success |-> TRUE, work |-> w,
   address |-> AddressToJSON(l, b.address), block |-> BlockToJSON(b)]

\* Mutant of PostSubmitCatch: an incorrect solution is sent as an error.
PostSubmitCatchAllErrors(e) == ErrorToJSON(e)

\* POST /submit, catch: an incorrect solution is a normal answer.
PostSubmitCatch(e) ==
  IF e = ErrorSolutionIncorrect THEN [ok |-> TRUE, success |-> FALSE]
  ELSE ErrorToJSON(e)

\* What a websocket client receives when the handler's promise rejects.
WsRejected(e) == ErrorToJSON(e)

\* submit_block, .catch(reject): every rejection is passed on as it is.
WsSubmitCatch(e) == WsRejected(e)

SubmitCatch(kind, e) == IF kind = "post" THEN PostSubmitCatch(e) ELSE WsSubmitCatch(e)

\* Mutant of WsSubmitAddress: ws.auth || message.address
WsSubmitAddressAuthFirst(address, auth) == IF Truthy(auth) THEN auth ELSE address

\* message.address || ws.auth
WsSubmitAddress(address, auth) == IF Truthy(address) THEN address ELSE auth

\* ws.isGuest && !message.address
WsGuestWithoutAddress(isGuest, address) == isGuest /\ ~Truthy(address)

\* A transport has called submitBlock(address, nonce): validation rejects at
\* once, otherwise the evaluation is pending.
SubmitBlockCalled(started, address, nonce) ==
  LET e == SubmitBlockValidate(address, nonce)
      called == [started EXCEPT !.subAddr = address]
  IN  IF e # NoError
      THEN [called EXCEPT !.pc = "done", !.outcome = SubmitOutcome(e),
                          !.response = SubmitCatch(started.kind, e)]
      ELSE [called EXCEPT !.pc = "evaluate"]

\* POST /submit {address, nonce}
PostSubmitRequest(r, address, nonce) ==
  /\ Arrives(r)
  /\ req' = [req EXCEPT ![r] =
       SubmitBlockCalled([Idle EXCEPT !.kind = "post", !.address = address,
                                      !.nonce = nonce], address, nonce)]
  /\ UNCHANGED shared
  /\ UNCHANGED hooks

WsSessions ==
  {[isGuest |-> TRUE, auth |-> <<>>], [isGuest |-> FALSE, auth |-> MakeV1Address(KeyA)]}

\* websocket {type: "submit_block", address?, nonce}
WsSubmitRequest(r, ws, address, nonce) ==
  /\ Arrives(r)
  /\ LET started == [Idle EXCEPT !.kind = "ws", !.address = address, !.nonce = nonce,
                                 !.isGuest = ws.isGuest, !.auth = ws.auth]
     IN  req' = [req EXCEPT ![r] =
           IF WsGuestWithoutAddress(ws.isGuest, address)
           THEN [started EXCEPT !.pc = "done", !.outcome = "MissingAddress",
                   !.response = WsRejected(ErrorMissingParameter("address"))]
           ELSE SubmitBlockCalled(started, WsSubmitAddress(address, ws.auth), nonce)]
  /\ UNCHANGED shared
  /\ UNCHANGED hooks

\* Steps 3 to 5 on one snapshot of head and work.
Evaluated(r) ==
  LET last == Substr(GetLastBlock.hash, PrefixLen)
  IN  [req[r] EXCEPT !.lastBlock = GetLastBlock, !.headWork = work,
                     !.last = last, !.difficulty = GetWork,
                     !.hash = Digest(req[r].subAddr, last, req[r].nonce)]

\* Step 7: no match, the promise rejects with ErrorSolutionIncorrect.
SubmitBlockNoMatch(r) ==
  /\ req[r].pc = "evaluate"
  /\ ~WorkCheck(Evaluated(r).hash, Evaluated(r).difficulty)
  /\ req' = [req EXCEPT ![r] =
       [Evaluated(r) EXCEPT !.pc = "done", !.outcome = "NoMatch",
          !.response = SubmitCatch(req[r].kind, ErrorSolutionIncorrect)]]
  /\ UNCHANGED shared
  /\ UNCHANGED hooks

\* Step 6: the match is accepted in the same step that read the head.
SubmitBlockAccept(r) ==
  /\ req[r].pc = "evaluate"
  /\ WorkCheck(Evaluated(r).hash, Evaluated(r).difficulty)
  /\ \E newWork \in WorkTargets :
       BlocksSubmit(Evaluated(r).hash, req[r].subAddr, newWork)
  /\ LET b == NewBlock(Evaluated(r).hash, req[r].subAddr)
     IN  req' = [req EXCEPT ![r] =
           [Evaluated(r) EXCEPT !.pc = "done", !.outcome = "Accepted", !.block = b,
              !.response = SubmitSuccessJSON(work', ledger', b)]]

\* Step 6 fails in storage: nothing is committed, the promise rejects.
SubmitBlockFail(r) ==
  /\ req[r].pc = "evaluate"
  /\ WorkCheck(Evaluated(r).hash, Evaluated(r).difficulty)
  /\ req' = [req EXCEPT ![r] =
       [Evaluated(r) EXCEPT !.pc = "done", !.outcome = "Rejected",
          !.response = SubmitCatch(req[r].kind, ErrorStorage)]]
  /\ UNCHANGED shared
  /\ UNCHANGED hooks

\* ------------------------------------------------------- POST /login
\* Mutant of LoginVersion: no default, an absent v is version 0.
LoginVersionNoDefault(v) == ParseInt(v).val

\* var v = parseInt(req.query.v) || 2
LoginVersion(v) == OrTwo(ParseInt(v))

\* The switch on v: the candidate address of the requested version.
LoginAddress(privatekey, version) ==
  IF version = 1 THEN Substr(Sha256(privatekey), AddrLen)
  ELSE MakeV2Address(privatekey)

LoginVersionSupported(version) == version \in {1, 2}

\* addresses.verify(address, key): the derivation of the version the address
\* format implies matches, and the address is in the ledger.
Verify(l, address, key) ==
  LET derived == IF IsV2Format(address) THEN MakeV2Address(key) ELSE MakeV1Address(key)
  IN  [authed |-> derived = address /\ LedgerGet(l, address).exists,
       address |-> [address |-> address]]

\* Mutant of VerifyLedger: a matching address that is not in the ledger is
\* created by the lookup.
VerifyLedgerLazyCreate(l, address, key) ==
  LET derived == IF IsV2Format(address) THEN MakeV2Address(key) ELSE MakeV1Address(key)
  IN  IF derived = address THEN GetOrCreate(l, address) ELSE l

\* The ledger after addresses.verify(address, key): the address is looked up
\* with Ledger.get and never created.
VerifyLedger(l, address, key) == l

\* Mutant of LoginResponse: results.authed is not looked at.
LoginResponseIgnoresAuthed(results) ==
  [ok |-> TRUE, authed |-> TRUE, address |-> results.address.address]

\* The answer to a resolved verify.
LoginResponse(results) ==
  IF results.authed
  THEN [ok |-> TRUE, authed |-> TRUE, address |-> results.address.address]
  ELSE [ok |-> TRUE, authed |-> FALSE]

\* The synchronous part: the privatekey check, the version switch and the
\* call of addresses.verify.
LoginRequest(r, privatekey, v) ==
  /\ Arrives(r)
  /\ LET started == [Idle EXCEPT !.kind = "login", !.privatekey = privatekey, !.v = v]
         version == LoginVersion(v)
     IN  req' = [req EXCEPT ![r] =
           IF ~Truthy(privatekey)
           THEN [started EXCEPT !.pc = "done", !.outcome = "MissingParameter",
                   !.response = ErrorToJSON(ErrorMissingParameter("privatekey"))]
           ELSE IF ~LoginVersionSupported(version)
           THEN [started EXCEPT !.pc = "done", !.outcome = "InvalidParameter",
                   !.response = ErrorToJSON(ErrorInvalidParameter("v"))]
           ELSE [started EXCEPT !.pc = "verify",
                   !.subAddr = LoginAddress(privatekey, version)]]
  /\ UNCHANGED shared
  /\ UNCHANGED hooks

\* addresses.verify resolves and the handler answers.
LoginVerifyThen(r) ==
  /\ req[r].pc = "verify"
  /\ LET results == Verify(ledger, req[r].subAddr, req[r].privatekey)
     IN  req' = [req EXCEPT ![r].pc = "done",
                   ![r].outcome = IF results.authed THEN "Authed" ELSE "NotAuthed",
                   ![r].response = LoginResponse(results)]
  /\ ledger' = VerifyLedger(ledger, req[r].subAddr, req[r].privatekey)
  /\ UNCHANGED <<chain, work, now, workSamples>>
  /\ UNCHANGED hooks

\* addresses.verify rejects: the handler has no catch and never answers.
LoginVerifyReject(r) ==
  /\ req[r].pc = "verify"
  /\ req' = [req EXCEPT ![r].pc = "hung", ![r].outcome = "VerifyFailed"]
  /\ UNCHANGED shared
  /\ UNCHANGED hooks

\* ----------------------------------------------------- GET /work/day
\* res.json({ok: true, work: krist.getWorkOverTime()})
WorkDayResponse(series) == [ok |-> TRUE, work |-> series]

WorkDayRequest(r) ==
  /\ Arrives(r)
  /\ \E unknown \in WorkTargets :
       req' = [req EXCEPT ![r] =
         [Idle EXCEPT !.kind = "workday", !.pc = "done", !.outcome = "Answered",
            !.response = WorkDayResponse(GetWorkOverTime(workSamples, now, unknown))]]
  /\ UNCHANGED shared
  /\ UNCHANGED hooks

\* ------------------------------------------- GET /?v2=, GET /v2/:key
\* Mutant of LegacyV2Response: the v1 derivation is sent.
LegacyV2ResponseV1(key) == Literal(MakeV1Address(key))

\* res.send(utils.makeV2Address(req.query.v2)): the address as plain text.
LegacyV2Response(key) == Literal(MakeV2Address(key))

\* res.json({ok: true, address: utils.makeV2Address(req.params.key)})
V2Response(key) == [ok |-> TRUE, address |-> MakeV2Address(key)]

\* GET /?v2=<key>: an absent or empty key is passed on with next(). The key
\* is kept in the request's privatekey.
LegacyV2Request(r, key) ==
  /\ Arrives(r)
  /\ LET started == [Idle EXCEPT !.kind = "v2legacy", !.privatekey = key]
     IN  req' = [req EXCEPT ![r] =
           IF Truthy(key)
           THEN [started EXCEPT !.pc = "done", !.outcome = "Derived",
                                !.response = LegacyV2Response(key)]
           ELSE [started EXCEPT !.pc = "next", !.outcome = "PassedOn"]]
  /\ UNCHANGED shared
  /\ UNCHANGED hooks

\* GET /v2/:key
V2Request(r, key) ==
  /\ Arrives(r)
  /\ req' = [req EXCEPT ![r] =
       [Idle EXCEPT !.kind = "v2json", !.privatekey = key, !.pc = "done",
                    !.outcome = "Derived", !.response = V2Response(key)]]
  /\ UNCHANGED shared
  /\ UNCHANGED hooks

\* --------------------------------------------------------- webhooks
\* What a webhook request may carry.
HookOwners == {MakeV2Address(KeyA), MakeV1Address(KeyK), MakeV2Address(KeyK)}
HookEventTypes == {"transaction", "block", "name"}
HookEvents == {"block", "name", "bogus"}
HookAddressLists == {<<>>, <<MakeV2Address(KeyA)>>}
HookTokens == {"t1", "t2"}
HookUrl == "http://u"
HookIds == 1..(MaxHooks + 1)

ErrorAuthFailed == [error |-> "auth_failed", parameter |-> ""]
ErrorWebhookNotFound == [error |-> "webhook_not_found", parameter |-> ""]

\* The ownership proof of the webhook operations: AuthenticationService
\* success for (owner, privatekey).
HookAuth(l, owner, privatekey) == Verify(l, owner, privatekey).authed

\* Mutant of RegisterWebhookError: the event is validated, the key is not.
RegisterWebhookErrorEventOnly(l, privatekey, owner, event) ==
  IF event \notin HookEventTypes THEN ErrorInvalidParameter("event") ELSE NoError

\* registerWebhook: the auth check, then the event.
RegisterWebhookError(l, privatekey, owner, event) ==
  IF ~HookAuth(l, owner, privatekey) THEN ErrorAuthFailed
  ELSE IF event \notin HookEventTypes THEN ErrorInvalidParameter("event")
  ELSE NoError

\* The webhook the store creates: the address filter only for transaction
\* and name events, the method defaulted.
NewWebhook(id, owner, event, addresses, token) ==
  [id |-> id, event |-> event, url |-> HookUrl, owner |-> owner, token |-> token,
   addresses |-> IF event \in {"transaction", "name"} THEN addresses ELSE <<>>,
   method |-> "get"]

\* webhooksController.webhookToJSON
WebhookToJSON(w) ==
  IF w.event \in {"transaction", "name"}
  THEN [id |-> w.id, event |-> w.event, addresses |-> w.addresses, url |-> w.url,
        method |-> w.method, owner |-> w.owner, token |-> w.token]
  ELSE [id |-> w.id, event |-> w.event, url |-> w.url,
        method |-> w.method, owner |-> w.owner, token |-> w.token]

\* The store's answer to a query: the webhooks in the order of their ids.
RECURSIVE ById(_)
ById(S) ==
  IF S = {} THEN <<>>
  ELSE LET w == CHOOSE x \in S : \A y \in S : x.id <= y.id
       IN  <<w>> \o ById(S \ {w})

\* getWebhooksByAddress: the same auth check, then the owner's webhooks.
GetWebhooksByAddressError(l, privatekey, owner) ==
  IF ~HookAuth(l, owner, privatekey) THEN ErrorAuthFailed ELSE NoError

GetWebhooksByAddress(hs, owner) == ById({w \in hs : w.owner = owner})

\* Mutant of DeleteWebhookError: any authenticated caller may delete any id.
DeleteWebhookErrorAuthOnly(l, hs, privatekey, owner, id) ==
  IF ~HookAuth(l, owner, privatekey) THEN ErrorAuthFailed
  ELSE IF ~(\E w \in hs : w.id = id) THEN ErrorWebhookNotFound
  ELSE NoError

\* deleteWebhook: the auth check, then the webhook with that id must be the
\* owner's.
DeleteWebhookError(l, hs, privatekey, owner, id) ==
  IF ~HookAuth(l, owner, privatekey) THEN ErrorAuthFailed
  ELSE IF ~(\E w \in hs : w.id = id /\ w.owner = owner) THEN ErrorWebhookNotFound
  ELSE NoError

\* Mutant of HookCatch: the catch answers as if the operation had succeeded.
HookCatchAsSuccess(e) == [ok |-> TRUE]

\* .catch(function(error) { utils.sendErrorToRes(req, res, error); })
HookCatch(e) == ErrorToJSON(e)

RegisterWebhookThen(webhook) == [ok |-> TRUE, webhook |-> WebhookToJSON(webhook)]

\* Mutant of GetWebhooksThen: the count is taken before the list is filled.
GetWebhooksThenCountFirst(results) ==
  [ok |-> TRUE, count |-> 0,
   webhooks |-> [i \in 1..Len(results) |-> WebhookToJSON(results[i])]]

\* getWebhooksByOwner: every result as JSON, and their number.
GetWebhooksThen(results) ==
  LET out == [i \in 1..Len(results) |-> WebhookToJSON(results[i])]
  IN  [ok |-> TRUE, count |-> Len(out), webhooks |-> out]

DeleteWebhookThen == [ok |-> TRUE]

\* POST /webhooks {privatekey, owner, event, url, method?, addresses?}: the
\* controller's promise and the handler's then / catch, as one step.
RegisterWebhookRequest(privatekey, owner, event, addresses, token) ==
  /\ nextId <= MaxHooks
  /\ LET e == RegisterWebhookError(ledger, privatekey, owner, event)
         w == NewWebhook(nextId, owner, event, addresses, token)
         heard == [NoHookRequest EXCEPT !.kind = "register", !.privatekey = privatekey,
                     !.owner = owner, !.event = event, !.addresses = addresses]
     IN  IF e # NoError
         THEN /\ hreq' = [heard EXCEPT !.outcome = e.error, !.response = HookCatch(e)]
              /\ UNCHANGED <<webhooks, nextId, everRegistered, deleted>>
         ELSE /\ webhooks' = webhooks \cup {w}
              /\ nextId' = nextId + 1
              /\ everRegistered' = everRegistered \cup {w}
              /\ hreq' = [heard EXCEPT !.id = w.id, !.outcome = "ok",
                            !.response = RegisterWebhookThen(w)]
              /\ UNCHANGED deleted
  /\ UNCHANGED <<shared, req>>

\* POST /webhooks/:owner and POST /address/:owner/webhooks {privatekey}
GetWebhooksByOwnerRequest(privatekey, owner) ==
  /\ LET e == GetWebhooksByAddressError(ledger, privatekey, owner)
         heard == [NoHookRequest EXCEPT !.kind = "list", !.privatekey = privatekey,
                     !.owner = owner]
     IN  hreq' = IF e # NoError
                 THEN [heard EXCEPT !.outcome = e.error, !.response = HookCatch(e)]
                 ELSE [heard EXCEPT !.outcome = "ok",
                         !.response = GetWebhooksThen(GetWebhooksByAddress(webhooks, owner))]
  /\ UNCHANGED <<webhooks, nextId, everRegistered, deleted>>
  /\ UNCHANGED <<shared, req>>

\* POST /webhooks/:id/delete and DELETE /webhooks/:id {privatekey, owner}
DeleteWebhookRequest(privatekey, owner, id) ==
  /\ LET e == DeleteWebhookError(ledger, webhooks, privatekey, owner, id)
         heard == [NoHookRequest EXCEPT !.kind = "delete", !.privatekey = privatekey,
                     !.owner = owner, !.id = id]
     IN  IF e # NoError
         THEN /\ hreq' = [heard EXCEPT !.outcome = e.error, !.response = HookCatch(e)]
              /\ UNCHANGED <<webhooks, deleted>>
         ELSE /\ webhooks' = {w \in webhooks : w.id # id}
              /\ deleted' = deleted \cup {id}
              /\ hreq' = [heard EXCEPT !.outcome = "ok", !.response = DeleteWebhookThen]
  /\ UNCHANGED <<nextId, everRegistered>>
  /\ UNCHANGED <<shared, req>>

Next ==
  \/ Tick
  \/ \E r \in Reqs, address \in SubmitAddresses, nonce \in Nonces :
       LegacyRequest(r, address, nonce)
  \/ \E r \in Reqs : GetLastBlockResolve(r)
  \/ \E r \in Reqs : GetLastBlockReject(r)
  \/ \E r \in Reqs : LegacyThen(r)
  \/ \E r \in Reqs : LegacySubmitThen(r)
  \/ \E r \in Reqs : LegacySubmitCatch(r)
  \/ \E r \in Reqs, address \in SubmitAddresses, nonce \in Nonces :
       PostSubmitRequest(r, address, nonce)
  \/ \E r \in Reqs, ws \in WsSessions, address \in SubmitAddresses, nonce \in Nonces :
       WsSubmitRequest(r, ws, address, nonce)
  \/ \E r \in Reqs : SubmitBlockNoMatch(r)
  \/ \E r \in Reqs : SubmitBlockAccept(r)
  \/ \E r \in Reqs : SubmitBlockFail(r)
  \/ \E r \in Reqs, privatekey \in PrivateKeys, v \in Versions :
       LoginRequest(r, privatekey, v)
  \/ \E r \in Reqs : LoginVerifyThen(r)
  \/ \E r \in Reqs : LoginVerifyReject(r)
  \/ \E r \in Reqs : WorkDayRequest(r)
  \/ \E r \in Reqs, key \in PrivateKeys : LegacyV2Request(r, key)
  \/ \E r \in Reqs, key \in Keys : V2Request(r, key)

Spec == Init /\ [][Next]_vars

\* The webhook routes on their own.
NextWebhooks ==
  \/ \E privatekey \in PrivateKeys, owner \in HookOwners, event \in HookEvents,
        addresses \in HookAddressLists, token \in HookTokens :
       RegisterWebhookRequest(privatekey, owner, event, addresses, token)
  \/ \E privatekey \in PrivateKeys, owner \in HookOwners :
       GetWebhooksByOwnerRequest(privatekey, owner)
  \/ \E privatekey \in PrivateKeys, owner \in HookOwners, id \in HookIds :
       DeleteWebhookRequest(privatekey, owner, id)

SpecWebhooks == Init /\ [][NextWebhooks]_vars

\* ============================================================ claims
\* The work check of 4.4 step 5, stated on its own: the first PrefixLen hex
\* digits of sha256(address ++ head.hash[:PrefixLen] ++ nonce), as an
\* integer, against a work value.
MeetsWork(address, headHash, nonce, w) ==
  ParseIntHex(SubSeq(Sha256(address \o SubSeq(headHash, 1, PrefixLen) \o nonce),
                     1, PrefixLen)) <= w

\* C1: at most one submission is accepted per chain head: no two accepted
\* submissions read the same head.
C1_OneAcceptedPerHead ==
  \A r1, r2 \in Reqs :
    (r1 # r2 /\ req[r1].outcome = "Accepted" /\ req[r2].outcome = "Accepted")
      => req[r1].lastBlock.height # req[r2].lastBlock.height

\* C2: a rewarded digest was computed from the hash of the block that is the
\* head at the moment of append, i.e. of the appended block's predecessor.
C2_NoStaleReward ==
  \A r \in Reqs :
    req[r].outcome = "Accepted"
      => /\ req[r].block.height = req[r].lastBlock.height + 1
         /\ req[r].hash = Sha256(req[r].subAddr
                                   \o SubSeq(chain[req[r].block.height].hash, 1, PrefixLen)
                                   \o req[r].nonce)

C4_NoMatchChangesNothing ==
  [][\A r \in Reqs :
       (req[r].outcome # "NoMatch" /\ req'[r].outcome = "NoMatch")
         => /\ UNCHANGED <<chain, ledger, work, workSamples>>
            /\ req[r].kind = "post"
                 => req'[r].response = [ok |-> TRUE, success |-> FALSE]
            /\ req[r].kind = "legacy"
                 => req'[r].response =
                      [literal |-> req[r].address
                                     \o SubSeq(req[r].lastBlock.hash, 1, PrefixLen)
                                     \o req[r].nonce]
    ]_vars

C4_Witness ==
  \E r1, r2 \in Reqs :
    /\ req[r1].kind = "post" /\ req[r1].outcome = "NoMatch"
    /\ req[r2].kind = "legacy" /\ req[r2].outcome = "NoMatch"

\* C5: a submission with an absent or invalid address ends at once as
\* InvalidAddress, and otherwise one with an absent or over-long nonce ends
\* at once as InvalidNonce; either way no head was read, no digest computed,
\* no state changed, and the request takes no further step.
C5_ValidationFirst ==
  [][\A r \in Reqs :
       /\ (req[r].pc = "idle" /\ req'[r].kind \in {"legacy", "post"})
            => LET badAddress == req'[r].address = <<>>
                                   \/ ~IsValidKristAddress(req'[r].address)
                   badNonce == req'[r].nonce = <<>> \/ Len(req'[r].nonce) > NonceMaxSize
                   untouched == /\ req'[r].pc = "done"
                                /\ req'[r].lastBlock = NoBlock
                                /\ req'[r].hash = <<>>
                                /\ UNCHANGED <<chain, ledger, work, workSamples>>
               IN  /\ badAddress
                        => /\ untouched
                           /\ req'[r].outcome = "InvalidAddress"
                           /\ req'[r].kind = "legacy"
                                => req'[r].response = [text |-> "Invalid address"]
                   /\ (~badAddress /\ badNonce)
                        => /\ untouched
                           /\ req'[r].outcome = "InvalidNonce"
                           /\ req'[r].kind = "legacy"
                                => req'[r].response = [text |-> "Nonce is too large"]
                   /\ (~badAddress /\ ~badNonce) => req'[r].pc # "done"
       /\ req[r].outcome \in {"InvalidAddress", "InvalidNonce"} => req'[r] = req[r]
    ]_vars

C5_Witness ==
  \E r1, r2 \in Reqs :
    /\ req[r1].kind = "legacy" /\ req[r1].outcome = "InvalidAddress"
    /\ req[r2].kind = "legacy" /\ req[r2].outcome = "InvalidNonce"
    /\ Len(req[r2].nonce) > NonceMaxSize

\* C6: the legacy handler's 'Solution rejected' step leaves chain, ledger,
\* work and work history as they were; its 'Block solved' step appends the
\* block, has the solver exist and credited with the block's value, and has
\* the new work recorded as the sample of the current minute.
C6_AcceptAllOrNothing ==
  [][\A r \in Reqs :
       (req[r].kind = "legacy" /\ req[r].pc = "submit" /\ req'[r].pc = "done")
         => /\ req'[r].response \in {[text |-> "Solution rejected"], [text |-> "Block solved"]}
            /\ req'[r].response = [text |-> "Solution rejected"]
                 => UNCHANGED <<chain, ledger, work, workSamples>>
            /\ req'[r].response = [text |-> "Block solved"]
                 => LET a == req[r].address
                        b == chain'[Len(chain')]
                    IN  /\ Len(chain') = Len(chain) + 1
                        /\ SubSeq(chain', 1, Len(chain)) = chain
                        /\ b.address = a /\ b.hash = req[r].hash
                        /\ b.height = chain[Len(chain)].height + 1
                        /\ ledger'[a].exists
                        /\ ledger'[a].balance = ledger[a].balance + b.value
                        /\ \A o \in LedgerAddresses \ {a} : ledger'[o] = ledger[o]
                        /\ workSamples' # <<>>
                        /\ workSamples'[Len(workSamples')].t = now
                        /\ workSamples # <<>> /\ workSamples[Len(workSamples)].t = now
                             => workSamples' = workSamples
                        /\ ~(workSamples # <<>> /\ workSamples[Len(workSamples)].t = now)
                             => workSamples'[Len(workSamples')].work = work'
    ]_vars

C6_Witness ==
  \E r1, r2 \in Reqs :
    /\ req[r1].response = [text |-> "Solution rejected"]
    /\ req[r2].response = [text |-> "Block solved"]

\* C7: every address has balance = totalin - totalout >= 0 in every state,
\* and the step that accepts a block raises the solver's balance and totalin
\* by exactly the block's value, leaves its totalout alone and touches no
\* other address.
C7_BalanceInvariant ==
  /\ [](\A a \in LedgerAddresses :
          /\ ledger[a].balance = ledger[a].totalin - ledger[a].totalout
          /\ ledger[a].balance >= 0 /\ ledger[a].totalin >= 0 /\ ledger[a].totalout >= 0
          /\ ~ledger[a].exists => ledger[a].totalin = 0)
  /\ [][\A r \in Reqs :
          (req[r].outcome # "Accepted" /\ req'[r].outcome = "Accepted")
            => LET solver == IF req[r].kind = "ws" /\ req[r].address = <<>>
                             THEN req[r].auth ELSE req[r].address
                   value == chain'[Len(chain')].value
               IN  /\ chain'[Len(chain')].address = solver
                   /\ Len(chain') = Len(chain) + 1
                   /\ ledger'[solver].exists
                   /\ ledger'[solver].balance = ledger[solver].balance + value
                   /\ ledger'[solver].totalin = ledger[solver].totalin + value
                   /\ ledger'[solver].totalout = ledger[solver].totalout
                   /\ \A o \in LedgerAddresses \ {solver} : ledger'[o] = ledger[o]
     ]_vars

C7_Witness ==
  \E r \in Reqs :
    /\ req[r].kind = "post" /\ req[r].outcome = "Accepted"
    /\ ledger[req[r].address].totalout > 0
    /\ ledger[req[r].address].balance > BlockReward

\* C8: on the websocket path a guest session without an address is answered
\* with the missing-parameter error for 'address' and nothing is submitted;
\* an authenticated session without an address submits for its session's
\* address; a session that gives an address submits for that address.
C8_WsAddressChoice ==
  \A r \in Reqs :
    (req[r].kind = "ws" /\ req[r].pc # "idle")
      => /\ (req[r].isGuest /\ req[r].address = <<>>)
              => /\ req[r].pc = "done"
                 /\ req[r].response =
                      [ok |-> FALSE, error |-> "missing_parameter", parameter |-> "address"]
                 /\ req[r].subAddr = <<>>
                 /\ req[r].lastBlock = NoBlock /\ req[r].hash = <<>>
                 /\ req[r].block = NoBlock
         /\ (~req[r].isGuest /\ req[r].address = <<>>) => req[r].subAddr = req[r].auth
         /\ req[r].address # <<>> => req[r].subAddr = req[r].address
         /\ req[r].outcome = "Accepted" => req[r].block.address = req[r].subAddr

C8_Witness ==
  \E r1, r2 \in Reqs :
    /\ req[r1].kind = "ws" /\ ~req[r1].isGuest /\ req[r1].address = <<>>
    /\ req[r1].outcome = "Accepted"
    /\ req[r2].kind = "ws" /\ req[r2].isGuest /\ req[r2].address = <<>>
    /\ req[r2].pc = "done"

\* C9: websocket submit_block and POST /submit report a NoMatch alike, as
\* the normal result {ok:true, success:false}.
C9_NoMatchReportedAlike ==
  \A r \in Reqs :
    (req[r].kind \in {"ws", "post"} /\ req[r].outcome = "NoMatch")
      => req[r].response = [ok |-> TRUE, success |-> FALSE]

Authenticates(l, owner, privatekey) ==
  /\ LedgerGet(l, owner).exists
  /\ \/ IsV2Format(owner) /\ MakeV2Address(privatekey) = owner
     \/ ~IsV2Format(owner) /\ MakeV1Address(privatekey) = owner

AuthFailedJSON == [ok |-> FALSE, error |-> "auth_failed"]
WebhookNotFoundJSON == [ok |-> FALSE, error |-> "webhook_not_found"]

\* C12: a webhook is registered only after the privatekey authenticates the
\* owner: a register request whose (owner, privatekey) does not authenticate
\* is answered {ok:false, error:"auth_failed"} and leaves the registry as it
\* was; a webhook enters the registry only in a register request whose
\* (owner, privatekey) authenticates, and with that owner; so every webhook
\* in the registry has an owner the ledger holds and some key derives.
C12_RegisterOnlyAuthenticated ==
  /\ [](\A w \in webhooks :
          \E k \in Keys : Authenticates(ledger, w.owner, k))
  /\ [][hreq'.kind = "register" =>
          /\ ~Authenticates(ledger, hreq'.owner, hreq'.privatekey) =>
               hreq'.response = AuthFailedJSON /\ webhooks' = webhooks
          /\ \A w \in webhooks' \ webhooks :
               /\ w.owner = hreq'.owner
               /\ Authenticates(ledger, hreq'.owner, hreq'.privatekey)]_vars
  /\ [][webhooks' \ webhooks # {} => hreq'.kind = "register"]_vars

\* A register request was refused for its key while a webhook of an earlier,
\* authenticated request is in the registry.
C12_Witness ==
  /\ hreq.kind = "register" /\ hreq.outcome = "auth_failed"
  /\ webhooks # {}

\* The webhooks a listing for an owner is to show: registered by that owner
\* and not deleted since.
Listed(owner) == {w \in everRegistered : w.owner = owner /\ w.id \notin deleted}

\* C13: webhook round trip: a successful listing for an owner shows exactly
\* the webhooks that owner registered and that were not deleted since, each
\* with a non-empty token, and count is their number; so a registered webhook
\* is listed until its deletion and never after.
C13_RoundTrip ==
  (hreq.kind = "list" /\ hreq.outcome = "ok") =>
     LET out == hreq.response.webhooks
     IN  /\ {<<out[i].id, out[i].owner, out[i].token>> : i \in 1..Len(out)}
            = {<<w.id, w.owner, w.token>> : w \in Listed(hreq.owner)}
         /\ Len(out) = Cardinality(Listed(hreq.owner))
         /\ hreq.response.count = Len(out)
         /\ \A i \in 1..Len(out) : out[i].token # ""

\* A listing that shows one webhook of the owner after another webhook of
\* the same owner was deleted.
C13_Witness ==
  /\ hreq.kind = "list" /\ hreq.outcome = "ok" /\ hreq.response.count = 1
  /\ \E w \in everRegistered : w.owner = hreq.owner /\ w.id \in deleted

\* The webhook a delete request names, as it stood before the request.
Targets(h) == {w \in everRegistered : w.id = h.id /\ (w \in webhooks \/ h.outcome = "ok")}

\* The request does not come from the webhook's owner.
WrongOwner(w, h) == ~(h.owner = w.owner /\ Authenticates(ledger, h.owner, h.privatekey))

C15_DeleteOnlyOwned ==
  [][hreq'.kind = "delete" =>
       LET authed == Authenticates(ledger, hreq'.owner, hreq'.privatekey)
           owned == {w \in webhooks : w.id = hreq'.id /\ w.owner = hreq'.owner}
       IN  /\ webhooks' # webhooks => authed /\ owned # {}
           /\ (authed /\ owned # {}) =>
                webhooks' = webhooks \ owned /\ hreq'.response = [ok |-> TRUE]
           /\ (authed /\ owned = {}) =>
                webhooks' = webhooks /\ hreq'.response = WebhookNotFoundJSON]_vars

\* A webhook was deleted by its owner, and the same request made again finds
\* nothing to delete.
C15_Witness ==
  /\ hreq.kind = "delete" /\ hreq.outcome = "webhook_not_found"
  /\ hreq.id \in deleted
  /\ \E w \in everRegistered : w.id = hreq.id /\ w.owner = hreq.owner

V2Kinds == {"v2legacy", "v2json"}

\* C16 as stated: GET /?v2=<key> and GET /v2/:key both answer a key
\* {ok:true, address} with the v2 address of the key, whatever the ledger
\* holds, and no step of either request changes the ledger, chain or work.
C16_BothAnswerJSON ==
  /\ [](\A r \in Reqs :
          (req[r].kind \in V2Kinds /\ req[r].pc # "idle" /\ req[r].privatekey # <<>>) =>
             req[r].response = [ok |-> TRUE, address |-> MakeV2Address(req[r].privatekey)])
  /\ [][\A r \in Reqs :
          (req'[r].kind \in V2Kinds /\ req'[r] # req[r]) => UNCHANGED shared]_vars

\* The address an answered derivation request carries.
V2AnswerAddress(response) ==
  IF "literal" \in DOMAIN response THEN response.literal ELSE response.address

\* C16 as amended: GET /v2/:key answers {ok:true, address}; GET /?v2=<key>
\* answers a non-empty key with the address as plain text and passes an empty
\* key on unanswered; the address is the v2 address of the key on both routes,
\* so two answered requests with equal keys carry equal addresses whatever
\* the ledger holds; no step of either request changes the ledger, chain or
\* work.
C16_PureDerivation ==
  /\ [](\A r \in Reqs :
          /\ (req[r].kind = "v2json" /\ req[r].pc # "idle") =>
                req[r].response = [ok |-> TRUE, address |-> MakeV2Address(req[r].privatekey)]
          /\ (req[r].kind = "v2legacy" /\ req[r].pc # "idle") =>
                IF req[r].privatekey # <<>>
                THEN req[r].response = [literal |-> MakeV2Address(req[r].privatekey)]
                ELSE req[r].response = NoResponse /\ req[r].pc = "next")
  /\ [](\A r, q \in Reqs :
          (/\ req[r].kind \in V2Kinds /\ req[q].kind \in V2Kinds
           /\ req[r].response # NoResponse /\ req[q].response # NoResponse
           /\ req[r].privatekey = req[q].privatekey) =>
             V2AnswerAddress(req[r].response) = V2AnswerAddress(req[q].response))
  /\ [][\A r \in Reqs :
          (req'[r].kind \in V2Kinds /\ req'[r] # req[r]) => UNCHANGED shared]_vars

\* The two routes answered the same key, one as plain text and one as JSON,
\* in a ledger that holds addresses.
C16_Witness ==
  \E r, q \in Reqs :
    /\ req[r].kind = "v2legacy" /\ req[r].pc = "done"
    /\ req[q].kind = "v2json" /\ req[q].pc = "done"
    /\ req[r].privatekey = req[q].privatekey
    /\ \E a \in LedgerAddresses : LedgerGet(ledger, a).exists

\* The minute the i-th value of workOverTime() stands for.
MinuteOf(i) == now - WindowLen + i

\* The samples taken up to minute m.
KnownAt(m) == {i \in 1..Len(workSamples) : workSamples[i].t <= m}

LegacyAnswers(r) ==
  {Text("Invalid address"), Text("Nonce is too large"), Text("Block solved"),
   Text("Solution rejected"),
   Literal(req[r].address \o Substr(req[r].lastBlock.hash, PrefixLen) \o req[r].nonce)}

\* A callback of the request is still to run.
Pending(r) == req[r].pc \in {"getLastBlock", "then", "submit", "evaluate", "verify"}

\* C18: every legacy GET /?submitblock request receives a response, one of
\* "Invalid address", "Nonce is too large", "Block solved", "Solution rejected"
\* or address ++ headPrefix ++ nonce, also when reading the chain head fails:
\* a request that has arrived and has no callback left to run has its answer.
C18_LegacyAlwaysAnswers ==
  \A r \in Reqs :
    (req[r].kind = "legacy" /\ ~Pending(r)) => req[r].response \in LegacyAnswers(r)

\* Whether the request has compared a digest with the work.
Compared(r) ==
  /\ req[r].kind \in {"legacy", "post", "ws"}
  /\ req[r].pc = "submit" \/ req[r].outcome \in {"NoMatch", "Accepted", "Rejected"}

\* C19: every acceptance decision uses one snapshot of head and work: the
\* work a digest was compared against is the work that was in force when the
\* head whose hash went into the digest was read.
C19_ConsistentSnapshot ==
  \A r \in Reqs : Compared(r) => req[r].difficulty = req[r].headWork

\* The values of v the model sends, by what parseInt(v) || 2 makes of them.
VersionOneInputs == {<<"1">>, <<"1", "z">>}
VersionTwoInputs == {<<>>, <<"0">>, <<"2">>, <<"z">>}
OtherVersionInputs == {<<"3">>}

\* C20: POST /login takes the derivation version from v: absent, zero or not
\* a number is version 2, 1 is version 1, 2 is version 2, another integer is
\* answered invalid_parameter 'v'; no privatekey is answered
\* missing_parameter 'privatekey', whatever v is. Both errors are answered
\* at once: nothing is derived and addresses.verify is not called.
C20_LoginVersionSelection ==
  /\ [](\A r \in Reqs :
          (req[r].kind = "login" /\ req[r].pc # "idle") =>
             /\ req[r].v \in VersionOneInputs \cup VersionTwoInputs \cup OtherVersionInputs
             /\ req[r].privatekey = <<>> =>
                  /\ req[r].response =
                       [ok |-> FALSE, error |-> "missing_parameter", parameter |-> "privatekey"]
                  /\ req[r].subAddr = <<>>
             /\ (req[r].privatekey # <<>> /\ req[r].v \in OtherVersionInputs) =>
                  /\ req[r].response =
                       [ok |-> FALSE, error |-> "invalid_parameter", parameter |-> "v"]
                  /\ req[r].subAddr = <<>>
             /\ (req[r].privatekey # <<>> /\ req[r].v \in VersionOneInputs) =>
                  req[r].subAddr = MakeV1Address(req[r].privatekey)
             /\ (req[r].privatekey # <<>> /\ req[r].v \in VersionTwoInputs) =>
                  req[r].subAddr = MakeV2Address(req[r].privatekey))
  /\ [][\A r \in Reqs :
          (/\ req'[r].kind = "login" /\ req[r].pc = "idle"
           /\ req'[r].privatekey = <<>> \/ req'[r].v \in OtherVersionInputs) =>
             req'[r].pc = "done" /\ UNCHANGED shared]_vars
  /\ [][\A r \in Reqs :
          (req[r].kind = "login" /\ req[r].pc = "done") => req'[r] = req[r]]_vars

\* One login without a privatekey but with a bad v, one with a privatekey
\* and a bad v, both answered.
C20_Witness ==
  \E r, q \in Reqs :
    /\ req[r].kind = "login" /\ req[r].outcome = "MissingParameter"
    /\ req[r].v \in OtherVersionInputs
    /\ req[q].kind = "login" /\ req[q].outcome = "InvalidParameter"

\* submitBlock (steps 1 to 6) on one snapshot: the outcome for (address,
\* nonce) when the head is `head` and the work is w, and the block an
\* accepted submission appends to that head.
SubmitBlockOn(address, nonce, head, w) ==
  LET e == SubmitBlockValidate(address, nonce)
      hash == Digest(address, Substr(head.hash, PrefixLen), nonce)
  IN  IF e # NoError THEN [outcome |-> SubmitOutcome(e), block |-> NoBlock]
      ELSE IF WorkCheck(hash, w)
      THEN [outcome |-> "Accepted",
            block |-> [height |-> head.height + 1, address |-> address,
                       hash |-> hash, value |-> BlockReward]]
      ELSE [outcome |-> "NoMatch", block |-> NoBlock]

\* The request ended with one of the four outcomes of a block submission.
Decided(r) ==
  req[r].outcome \in {"InvalidAddress", "InvalidNonce", "NoMatch", "Accepted"}

\* C21: GET /?submitblock and POST /submit implement the same block
\* submission: a request of either route that ended InvalidAddress,
\* InvalidNonce, NoMatch or Accepted ended as submitBlock ends for its
\* address and nonce in the state it read (the head and the work in force
\* then), and an accepted one appended the block submitBlock appends to that
\* head, credited to the same address.
C21_SameBlockSubmission ==
  \A r \in Reqs :
    (req[r].kind \in {"legacy", "post"} /\ Decided(r)) =>
       LET s == SubmitBlockOn(req[r].address, req[r].nonce,
                              req[r].lastBlock, req[r].headWork)
       IN  /\ req[r].outcome = s.outcome
           /\ req[r].block = s.block

\* The four answers of POST /login, for request r.
LoginAnswers(r) ==
  {[ok |-> FALSE, error |-> "missing_parameter", parameter |-> "privatekey"],
   [ok |-> FALSE, error |-> "invalid_parameter", parameter |-> "v"],
   [ok |-> TRUE, authed |-> TRUE, address |-> req[r].subAddr],
   [ok |-> TRUE, authed |-> FALSE]}

\* C22: every POST /login request receives one response, the
\* missing-parameter error, the invalid-parameter error, {authed: true,
\* address} or {authed: false}, also when addresses.verify rejects: a login
\* that has arrived and has no callback left to run has its answer.
C22_LoginAlwaysAnswers ==
  \A r \in Reqs :
    (req[r].kind = "login" /\ ~Pending(r)) => req[r].response \in LoginAnswers(r)
====
